---- MODULE Spec2Model ----
(***************************************************************************)
(* Moderation ledger and lockdown manager of src/main.py.                  *)
(*                                                                         *)
(* Two JSON files are the durable state: mod_actions.json (the ledger) and *)
(* lockdowns.json (the lockdown snapshots).  Every operation loads the     *)
(* whole document, mutates it in memory and writes it back.  The ledger    *)
(* operations are synchronous; the lockdown operations are coroutines that *)
(* suspend at every Permission Backend call (ch.set_permissions).          *)
(***************************************************************************)
EXTENDS Integers, Sequences, FiniteSets, TLC

(***************************************************************************)
(* Bounds of the model.                                                    *)
(***************************************************************************)
MaxRecord == 3
MaxAmend  == 2
MaxKick   == 2     \* kick and ban commands issued
MaxSeconds == 3700  \* every duration up to it is formatted: past 1h1m
MaxDays    == 2     \* and some of one day and more, up to as many days

(***************************************************************************)
(* Inputs.                                                                 *)
(***************************************************************************)
Guilds      == {"g1", "g2"}
ActionTypes == {"kick", "ban"}
Users       == {"u1"}
Moderators  == {"m1"}
Times       == {10}
\* reason as the command passes it: None (here "") or a text
Reasons     == {"", "spam"}
NewReasons  == {"", "appeal"}
\* number as editreason passes it: 0 is falsy like None
Numbers     == 0..(MaxRecord + 1)

\* the (guild, action_type, user) buckets the calls are drawn from
Buckets == {<<"g1", "kick", "u1">>, <<"g1", "ban", "u1">>, <<"g2", "kick", "u1">>}

NoReason == "No reason provided"
None     == "None"

VARIABLES
    actionsFile,   \* content of MOD_ACTION_FILE
    ret,           \* what the last ledger call returned
    lastOp,        \* the last ledger call and its arguments
    assigned,      \* per bucket, the ids add_action returned, in call order
    nRecord,       \* add_action calls so far
    nAmend,        \* edit_action_reason calls so far
    cmds,          \* the kick and ban commands issued, in the order issued
    dur            \* a duration on its way through human_readable and parse_duration

ledgerVars == <<actionsFile, ret, lastOp, assigned, nRecord, nAmend, cmds, dur>>

VARIABLES
    lockFile,      \* content of LOCKDOWN_FILE
    overwrites,    \* per channel, the overwrite of guild.default_role
    present,       \* the channels that exist
    tasks,         \* per task, where its coroutine is and its locals
    timers,        \* per guild, the auto_unlock tasks sleeping
    last,          \* the last step: who took it, and what it returned
    hist,          \* per guild, its history so far (see HistEv)
    budget         \* commands issued, calls that raised, outside events

lockVars == <<lockFile, overwrites, present, tasks, timers, last, hist, budget>>

(***************************************************************************)
(* Persistent store.  A file is absent, holds a parseable document, or     *)
(* holds text json.load rejects.                                           *)
(***************************************************************************)
EmptyLedger == [b \in Buckets |-> <<>>]

FileAbsent(empty)  == [st |-> "absent",  doc |-> empty]
FileCorrupt(empty) == [st |-> "corrupt", doc |-> empty]
FileOk(d)          == [st |-> "ok",      doc |-> d]

\* load_json: {} when the file is missing or does not parse
LoadJson(file, empty) == IF file.st = "ok" THEN file.doc ELSE empty

load_actions_fresh == EmptyLedger

load_actions == LoadJson(actionsFile, EmptyLedger)

\* every value add_action and edit_action_reason store is an int or a str
save_actions(data) == FileOk(data)

(***************************************************************************)
(* Action ledger.                                                          *)
(***************************************************************************)
RECURSIVE MaxId(_)
MaxId(lst) ==
    IF lst = <<>> THEN 0
    ELSE LET m == MaxId(Tail(lst))
         IN  IF Head(lst).id > m THEN Head(lst).id ELSE m

_next_id_reuse(lst) == IF lst = <<>> THEN 1 ELSE MaxId(lst)

_next_id(lst) == IF lst = <<>> THEN 1 ELSE MaxId(lst) + 1

OrDefault(reason) == IF reason = "" THEN NoReason ELSE reason

NewAction(id, reason, moderator, now) ==
    [id             |-> id,
     reason         |-> OrDefault(reason),
     moderator_id   |-> moderator,
     moderator_name |-> moderator,
     timestamp      |-> now]

add_action(b, reason, moderator, now) ==
    LET data      == load_actions
        u         == data[b]
        action_id == _next_id(u)
    IN  /\ nRecord < MaxRecord
        /\ nRecord' = nRecord + 1
        /\ actionsFile' = save_actions(
               [data EXCEPT ![b] = Append(u, NewAction(action_id, reason, moderator, now))])
        /\ ret' = action_id
        /\ assigned' = [assigned EXCEPT ![b] = Append(@, action_id)]
        /\ lastOp' = [op |-> "record", bucket |-> b, number |-> 0, reason |-> reason]
        /\ UNCHANGED <<nAmend, dur, lockVars>>

\* the index edit_action_reason settles on: the first item whose id is
\* number, else the initial idx = 0 (1 here: sequences start at 1)
RECURSIVE FindIdx(_, _, _)
FindIdx(u, number, i) ==
    IF i > Len(u) THEN 1
    ELSE IF u[i].id = number THEN i
    ELSE FindIdx(u, number, i + 1)

EditIdxLast(u, number) == Len(u)

EditIdx(u, number) == IF number # 0 THEN FindIdx(u, number, 1) ELSE 1

Edited(item, new_reason, now) ==
    [f \in DOMAIN item \cup {"edited_at"} |->
        CASE f = "reason"    -> OrDefault(new_reason)
          [] f = "edited_at" -> now
          [] OTHER           -> item[f]]

edit_action_reason(b, number, new_reason, now) ==
    LET data == load_actions
        u    == data[b]
        idx  == EditIdx(u, number)
    IN  /\ nAmend < MaxAmend
        /\ nAmend' = nAmend + 1
        /\ lastOp' = [op |-> "amend", bucket |-> b, number |-> number, reason |-> new_reason]
        /\ IF u = <<>>
           THEN /\ ret' = None
                /\ UNCHANGED actionsFile
           ELSE /\ ret' = u[idx].reason
                /\ actionsFile' = save_actions(
                       [data EXCEPT ![b][idx] = Edited(u[idx], new_reason, now)])
        /\ UNCHANGED <<assigned, nRecord, dur, lockVars>>

Record ==
    /\ \E b \in Buckets, r \in Reasons, m \in Moderators, now \in Times :
          add_action(b, r, m, now)
    /\ UNCHANGED cmds

Amend ==
    /\ \E b \in Buckets, n \in Numbers, r \in NewReasons, now \in Times :
          edit_action_reason(b, n, r, now)
    /\ UNCHANGED cmds

\* The kick and ban commands are coroutines: each suspends in
\* await user.kick(...) / user.ban(...), and calls add_action, which has no
\* await in it, when that returns.  Several can be suspended at once.
KickBegin(b, r, m) ==
    /\ Len(cmds) < MaxKick
    /\ cmds' = Append(cmds, [bucket |-> b, reason |-> r, moderator |-> m,
                             pc |-> "await", id |-> 0, seen |-> load_actions])
    /\ UNCHANGED <<actionsFile, ret, lastOp, assigned, nRecord, nAmend, dur, lockVars>>

\* user.kick returned: add_action runs to its end before anything else does
KickActed(i) ==
    /\ cmds[i].pc = "await"
    /\ \E now \in Times :
          add_action(cmds[i].bucket, cmds[i].reason, cmds[i].moderator, now)
    /\ cmds' = [cmds EXCEPT ![i].pc = "done", ![i].id = ret']

\* user.kick raised: the except clause reports it, add_action is not called
KickRaised(i) ==
    /\ cmds[i].pc = "await"
    /\ cmds' = [cmds EXCEPT ![i].pc = "raised"]
    /\ UNCHANGED <<actionsFile, ret, lastOp, assigned, nRecord, nAmend, dur, lockVars>>

(***************************************************************************)
(* Durations: human_readable and parse_duration.  A str is a sequence of   *)
(* one-character strings.                                                  *)
(***************************************************************************)
DigitChars == <<"0", "1", "2", "3", "4", "5", "6", "7", "8", "9">>

IsDigit(ch) == \E k \in 1..10 : DigitChars[k] = ch

DigitValue(ch) == (CHOOSE k \in 1..10 : DigitChars[k] = ch) - 1

\* f"{n}": the decimal digits of a non-negative int
RECURSIVE Str(_)
Str(n) ==
    IF n < 10 THEN <<DigitChars[n + 1]>>
    ELSE Append(Str(n \div 10), DigitChars[(n % 10) + 1])

\* int(num) of a run of digits
RECURSIVE IntOf(_)
IntOf(num) ==
    IF num = <<>> THEN 0
    ELSE 10 * IntOf(SubSeq(num, 1, Len(num) - 1)) + DigitValue(num[Len(num)])

Part(n, unit) == IF n # 0 THEN Append(Str(n), unit) ELSE <<>>

human_readable(seconds) ==
    LET d  == seconds \div 86400
        r1 == seconds % 86400
        h  == r1 \div 3600
        r2 == r1 % 3600
        m  == r2 \div 60
        sc == r2 % 60
        parts == Part(d, "d") \o Part(h, "h") \o Part(m, "m") \o Part(sc, "s")
    IN  IF parts = <<>> THEN <<"0", "s">> ELSE parts

\* str.lower() on the characters that matter to the pattern
Lower(ch) ==
    CASE ch = "D" -> "d"
      [] ch = "H" -> "h"
      [] ch = "M" -> "m"
      [] ch = "S" -> "s"
      [] OTHER    -> ch

UnitSecondsShortDay(unit) ==
    CASE unit = "d" -> 8640
      [] unit = "h" -> 3600
      [] unit = "m" -> 60
      [] OTHER      -> 1

UnitSeconds(unit) ==
    CASE unit = "d" -> 86400
      [] unit = "h" -> 3600
      [] unit = "m" -> 60
      [] OTHER      -> 1

\* the index after the run of digits that starts at i
RECURSIVE DigitsEnd(_, _)
DigitsEnd(str, i) ==
    IF i <= Len(str) /\ IsDigit(str[i]) THEN DigitsEnd(str, i + 1) ELSE i

\* re.finditer(r"(\d+)([dhms])", ...): the matches from index i on, left to
\* right, none overlapping; total is the sum so far
RECURSIVE Scan(_, _, _)
Scan(str, i, total) ==
    IF i > Len(str) THEN total
    ELSE LET j == DigitsEnd(str, i)
         IN  IF j > i /\ j <= Len(str) /\ str[j] \in {"d", "h", "m", "s"}
             THEN Scan(str, j + 1,
                       total + IntOf(SubSeq(str, i, j - 1)) * UnitSeconds(str[j]))
             ELSE Scan(str, i + 1, total)

parse_duration(duration) ==
    IF duration = <<>> THEN 0
    ELSE Scan([k \in 1..Len(duration) |-> Lower(duration[k])], 1, 0)

NoDuration == [pc |-> "none", seconds |-> 0, text |-> <<>>, parsed |-> 0]

Format(n) ==
    /\ dur.pc = "none"
    /\ dur' = [dur EXCEPT !.pc = "text", !.seconds = n, !.text = human_readable(n)]
    /\ UNCHANGED <<actionsFile, ret, lastOp, assigned, nRecord, nAmend, cmds, lockVars>>

Parse ==
    /\ dur.pc = "text"
    /\ dur' = [dur EXCEPT !.pc = "parsed", !.parsed = parse_duration(dur.text)]
    /\ UNCHANGED <<actionsFile, ret, lastOp, assigned, nRecord, nAmend, cmds, lockVars>>

\* the durations formatted: all the short ones, and days with a remainder
\* that has or lacks each of the hour, the minute and the second
DayRests == {0, 1, 59, 60, 61, 3599, 3600, 3601, 3660, 3661, 86399}

Seconds ==
    (0..MaxSeconds) \cup {d * 86400 + r : d \in 1..MaxDays, r \in DayRests}

DurationNext == (\E n \in Seconds : Format(n)) \/ Parse

LedgerInit ==
    /\ actionsFile = FileAbsent(EmptyLedger)
    /\ ret = None
    /\ lastOp = [op |-> "none", bucket |-> <<"g1", "kick", "u1">>, number |-> 0, reason |-> ""]
    /\ assigned = [b \in Buckets |-> <<>>]
    /\ nRecord = 0
    /\ nAmend = 0
    /\ cmds = <<>>
    /\ dur = NoDuration

LedgerNext == Record \/ Amend

CommandNext ==
    \/ \E b \in Buckets, r \in Reasons, m \in Moderators : KickBegin(b, r, m)
    \/ \E i \in 1..Len(cmds) : KickActed(i)
    \/ \E i \in 1..Len(cmds) : KickRaised(i)


(***************************************************************************)
(* Lockdown manager: configuration, channels and permission overwrites.    *)
(***************************************************************************)
MaxCommands == 3     \* lockdown and unlock commands
MaxFail     == 1     \* Permission Backend and notification calls that raise
MaxExternal == 1     \* things others do to the guilds

Tasks == {1, 2}      \* coroutines in flight at once

STAFF_CHANNEL_IDS  == {"staff"}
GENERAL_CHANNEL_ID == "general"

\* guild.channels, in the order the loop of apply_lockdown sees them
GuildChannels(g) ==
    IF g = "g1" THEN <<"general", "c1", "staff", "c2">> ELSE <<"d1">>

Range(f) == {f[i] : i \in DOMAIN f}

AllChannels == UNION {Range(GuildChannels(g)) : g \in Guilds}

GuildOf(c) == CHOOSE g \in Guilds : c \in Range(GuildChannels(g))

\* the channels others may create while the bot runs; the rest exist from
\* the start
Creatable == {"d1"}

\* a discord.PermissionOverwrite: each permission is None, True or False
Overwrite(s, a, v) ==
    [type |-> "PermissionOverwrite", send_messages |-> s, add_reactions |-> a,
     view_channel |-> v]

EmptyOverwrite == Overwrite("None", "None", "None")

\* what json.load gives for the value of a channel entry of a stored snapshot
JsonNull == [type |-> "null"]
JsonDict == [type |-> "dict"]

\* the overwrites the channels start with
InitialOverwrites ==
    [c \in AllChannels |->
        CASE c = "c1" -> Overwrite("True", "None", "False")
          [] c = "c2" -> Overwrite("True", "True", "None")
          [] OTHER    -> EmptyOverwrite]

ExternalOverwrites == {Overwrite("None", "True", "True")}
Durations   == {0, 60}    \* parse_duration's result; 0 and None are both falsy
Levels      == {"full"}   \* one of LOCKDOWN_LEVELS; a label only
LockReasons == {"raid"}

EmptyLockdowns == [g \in Guilds |-> <<>>]

\* a lockdowns.json found at start-up that an earlier run or an operator
\* left: two snapshots for g2, whose channel entries are JSON values
LeftoverSnapshot(perms) ==
    [channels  |-> << <<"d1", perms>> >>,
     timestamp |-> 10, level |-> "full", reason |-> "raid", unlock_at |-> 0]

LeftoverLockdowns ==
    [EmptyLockdowns EXCEPT
        !["g2"] = <<LeftoverSnapshot(JsonNull), LeftoverSnapshot(JsonDict)>>]

IdleTask ==
    [pc |-> "idle", guild |-> "g1", src |-> "cmd", stale |-> FALSE,
     snapshots |-> EmptyLockdowns,
     snapshot |-> [channels |-> <<>>, timestamp |-> 0, level |-> "", reason |-> "",
                   unlock_at |-> 0],
     todo |-> <<>>, cur |-> <<>>, affected |-> <<>>, duration |-> 0,
     restored |-> 0, failed |-> 0, seen |-> 0]

load_lockdowns == LoadJson(lockFile, EmptyLockdowns)

\* json.dump raises TypeError on a PermissionOverwrite object: every other
\* value of the document is a dict, a list, a str, an int or None
Serializable(data) ==
    \A g \in Guilds : \A i \in 1..Len(data[g]) :
        \A k \in 1..Len(data[g][i].channels) :
            data[g][i].channels[k][2].type # "PermissionOverwrite"

\* save_json: open(path, "w") empties the file, then json.dump writes the
\* document piece by piece; when it raises, the file keeps the pieces
\* written so far, which do not parse
save_lockdowns(data) ==
    IF Serializable(data) THEN FileOk(data) ELSE FileCorrupt(EmptyLockdowns)

StoredList(g) == load_lockdowns[g]

StoredListNext(g) == LoadJson(lockFile', EmptyLockdowns)[g]

InScopeButGeneral(c) == c \notin STAFF_CHANNEL_IDS

InScope(c) == c \notin STAFF_CHANNEL_IDS /\ c # GENERAL_CHANNEL_ID

\* the channels of the guild the loop of apply_lockdown does not skip
InScopeChannels(g) ==
    SelectSeq(GuildChannels(g), LAMBDA c : c \in present /\ InScope(c))

\* a lockdown that would hide the channel as well
RestrictAndHide(perms) ==
    [perms EXCEPT !.send_messages = "False", !.add_reactions = "False",
                  !.view_channel = "False"]

\* perms.send_messages=False; perms.add_reactions=False
Restrict(perms) ==
    [perms EXCEPT !.send_messages = "False", !.add_reactions = "False"]

\* snapshot["channels"][str(ch.id)] = perms stores a reference to the object
\* the next two lines change: the entry holds what the object holds afterwards
SnapshotEntry(perms) == Restrict(perms)

NoResult == [kind |-> "none", affected |-> <<>>, restored |-> 0, failed |-> 0]
Affected(a) == [NoResult EXCEPT !.kind = "affected", !.affected = a]
ApplyError == [NoResult EXCEPT !.kind = "error"]
NoSnapshot == [NoResult EXCEPT !.kind = "NoSnapshot"]
Summary(r, f) == [NoResult EXCEPT !.kind = "summary", !.restored = r, !.failed = f]

Step(t, g, op, ev, src, stale, res) ==
    [task |-> t, guild |-> g, op |-> op, ev |-> ev, src |-> src, stale |-> stale,
     res |-> res]

Spend(what) == budget' = [budget EXCEPT ![what] = @ + 1]

\* a new coroutine takes the first free slot
FreeSlot(t) == tasks[t].pc = "idle" /\ \A u \in Tasks : u < t => tasks[u].pc # "idle"

Min(a, b) == IF a < b THEN a ELSE b

(***************************************************************************)
(* Bookkeeping for the claims: per guild, whether its history so far is    *)
(* k lockdown commands one after the other and then one unlock, with no    *)
(* call raising and nobody else touching its channels, and the overwrites  *)
(* as they were when the first of them began.                              *)
(***************************************************************************)
NoHistory == [phase |-> "none", applies |-> 0, summary |-> FALSE,
              pre |-> [c \in AllChannels |-> EmptyOverwrite],
              mid |-> [c \in AllChannels |-> EmptyOverwrite]]

Void == [NoHistory EXCEPT !.phase = "void"]

HistEv(h, ev, ov) ==
    CASE ev = "apply_begin" /\ h.phase = "none" ->
            [h EXCEPT !.phase = "applying", !.applies = 1, !.pre = ov]
      [] ev = "apply_begin" /\ h.phase = "applied" ->
            [h EXCEPT !.phase = "applying", !.applies = @ + 1]
      [] ev = "apply_return" /\ h.phase = "applying" -> [h EXCEPT !.phase = "applied"]
      [] ev = "restore_begin" /\ h.phase = "applied" -> [h EXCEPT !.phase = "restoring"]
      [] ev = "restore_summary" /\ h.phase = "restoring" ->
            [h EXCEPT !.phase = "restored", !.summary = TRUE]
      [] ev = "restore_nothing" /\ h.phase = "restoring" -> [h EXCEPT !.phase = "restored"]
      \* a second unlock right after the first
      [] ev = "restore_begin" /\ h.phase = "restored" -> [h EXCEPT !.phase = "restoring2"]
      [] ev \in {"restore_summary", "restore_nothing"} /\ h.phase = "restoring2" ->
            [h EXCEPT !.phase = "restored2"]
      \* one lockdown, somebody else changing an overwrite, a second lockdown
      \* (mid: the overwrites as they were when it began), then an unlock
      [] ev = "external" /\ h.phase = "applied" /\ h.applies = 1 ->
            [h EXCEPT !.phase = "applied_x"]
      [] ev = "apply_begin" /\ h.phase = "applied_x" ->
            [h EXCEPT !.phase = "applying_x", !.applies = 2, !.mid = ov]
      [] ev = "apply_return" /\ h.phase = "applying_x" -> [h EXCEPT !.phase = "applied_xx"]
      [] ev = "restore_begin" /\ h.phase = "applied_xx" -> [h EXCEPT !.phase = "restoring_x"]
      [] ev = "restore_summary" /\ h.phase = "restoring_x" ->
            [h EXCEPT !.phase = "restored_x", !.summary = TRUE]
      [] ev = "restore_nothing" /\ h.phase = "restoring_x" -> [h EXCEPT !.phase = "restored_x"]
      [] OTHER -> Void

Track(h, g, ev) == [h EXCEPT ![g] = HistEv(h[g], ev, overwrites)]

(***************************************************************************)
(* apply_lockdown.                                                         *)
(***************************************************************************)
\* Runs the coroutine from the head of the channel loop to its next await.
\* loc holds its locals, ov the overwrites as they are now.
ApplyProceed(t, loc, ov, h) ==
    LET g == loc.guild IN
    IF loc.todo # <<>>
    THEN LET c     == Head(loc.todo)
             perms == SnapshotEntry(ov[c])
         IN  /\ tasks' = [tasks EXCEPT ![t] =
                    [loc EXCEPT !.pc = "apply_set",
                                !.cur = <<c, perms>>,
                                !.todo = Tail(loc.todo),
                                !.snapshot.channels = Append(@, <<c, perms>>)]]
             /\ last' = Step(t, g, "apply", "await", "cmd", FALSE, NoResult)
             /\ hist' = h
             /\ UNCHANGED <<lockFile, timers>>
    ELSE \E now \in Times :
         LET snap == [loc.snapshot EXCEPT !.unlock_at =
                         IF loc.duration # 0 THEN now + loc.duration ELSE 0]
             data == [loc.snapshots EXCEPT ![g] = Append(@, snap)]
         IN  /\ timers' = IF loc.duration # 0
                          THEN [timers EXCEPT ![g].fresh = @ + 1]
                          ELSE timers
             /\ lockFile' = save_lockdowns(data)
             /\ IF Serializable(data)
                THEN /\ tasks' = [tasks EXCEPT ![t] =
                            [loc EXCEPT !.pc = "apply_notify", !.cur = <<>>,
                                        !.snapshot = snap, !.snapshots = data]]
                     /\ last' = Step(t, g, "apply", "saved", "cmd", FALSE, NoResult)
                     /\ hist' = h
                ELSE /\ tasks' = [tasks EXCEPT ![t] = IdleTask]
                     /\ last' = Step(t, g, "apply", "return", "cmd", FALSE, ApplyError)
                     /\ hist' = Track(h, g, "apply_return")

\* the lockdown command
ApplyBegin(t, g) ==
    /\ FreeSlot(t)
    /\ budget.commands < MaxCommands
    /\ Spend("commands")
    /\ \E level \in Levels, reason \in LockReasons, duration \in Durations, now \in Times :
         ApplyProceed(t,
            [IdleTask EXCEPT !.guild = g,
                             !.snapshots = load_lockdowns,
                             !.snapshot = [channels |-> <<>>, timestamp |-> now,
                                           level |-> level, reason |-> reason,
                                           unlock_at |-> 0],
                             !.todo = InScopeChannels(g),
                             !.duration = duration],
            overwrites, Track(hist, g, "apply_begin"))
    /\ UNCHANGED <<overwrites, present, ledgerVars>>

\* ch.set_permissions returned
ApplySetOk(t) ==
    /\ tasks[t].pc = "apply_set"
    /\ LET c  == tasks[t].cur[1]
           ov == [overwrites EXCEPT ![c] = tasks[t].cur[2]]
       IN  /\ overwrites' = ov
           /\ ApplyProceed(t, [tasks[t] EXCEPT !.affected = Append(@, c)], ov, hist)
    /\ UNCHANGED <<present, budget, ledgerVars>>

\* ch.set_permissions raised: the except clause of apply_lockdown returns
ApplySetFail(t) ==
    /\ tasks[t].pc = "apply_set"
    /\ budget.fail < MaxFail
    /\ Spend("fail")
    /\ tasks' = [tasks EXCEPT ![t] = IdleTask]
    /\ last' = Step(t, tasks[t].guild, "apply", "return", "cmd", FALSE, ApplyError)
    /\ hist' = Track(hist, tasks[t].guild, "void")
    /\ UNCHANGED <<lockFile, overwrites, present, timers, ledgerVars>>

\* general_channel.send and send_mod_log returned
ApplyNotifyOk(t) ==
    /\ tasks[t].pc = "apply_notify"
    /\ tasks' = [tasks EXCEPT ![t] = IdleTask]
    /\ last' = Step(t, tasks[t].guild, "apply", "return", "cmd", FALSE,
                    Affected(tasks[t].affected))
    /\ hist' = Track(hist, tasks[t].guild, "apply_return")
    /\ UNCHANGED <<lockFile, overwrites, present, timers, budget, ledgerVars>>

\* one of them raised
ApplyNotifyFail(t) ==
    /\ tasks[t].pc = "apply_notify"
    /\ budget.fail < MaxFail
    /\ Spend("fail")
    /\ tasks' = [tasks EXCEPT ![t] = IdleTask]
    /\ last' = Step(t, tasks[t].guild, "apply", "return", "cmd", FALSE, ApplyError)
    /\ hist' = Track(hist, tasks[t].guild, "void")
    /\ UNCHANGED <<lockFile, overwrites, present, timers, ledgerVars>>

(***************************************************************************)
(* remove_lockdown.                                                        *)
(***************************************************************************)
\* for snap in guild_snapshots: for cid, perms in snap["channels"].items()
RECURSIVE Items(_)
Items(guild_snapshots) ==
    IF guild_snapshots = <<>> THEN <<>>
    ELSE Head(guild_snapshots).channels \o Items(Tail(guild_snapshots))

\* The entries the loop passes without suspending: a channel that is gone
\* is skipped, and set_permissions raises TypeError at once on an overwrite
\* that is neither None nor a PermissionOverwrite (counted as failed).
PassSyncStop(items, failed) == [items |-> <<>>, failed |-> failed]

RECURSIVE PassSync(_, _)
PassSync(items, failed) ==
    IF items = <<>> THEN [items |-> items, failed |-> failed]
    ELSE IF Head(items)[1] \notin present THEN PassSync(Tail(items), failed)
    ELSE IF Head(items)[2].type = "dict" THEN PassSync(Tail(items), failed + 1)
    ELSE [items |-> items, failed |-> failed]

\* what set_permissions(overwrite=perms) leaves on the channel: overwrite=None
\* deletes the overwrite of the role
Written(perms) == IF perms.type = "null" THEN EmptyOverwrite ELSE perms

KeepList(data, g) == data

\* snapshots[str(guild.id)]=[]
ClearList(data, g) == [data EXCEPT ![g] = <<>>]

\* a manual unlock that went through the snapshots: the timers that were
\* sleeping when it began now outlive their lockdown
Outlived(loc, tm) ==
    IF loc.src = "cmd"
    THEN LET k == Min(loc.seen, tm[loc.guild].fresh)
         IN  [tm EXCEPT ![loc.guild] = [fresh |-> @.fresh - k, stale |-> @.stale + k]]
    ELSE tm

\* Runs the coroutine from the head of the loop to its next await.
RestoreProceed(t, loc, tm, h) ==
    LET g == loc.guild
        r == PassSync(loc.todo, loc.failed)
    IN  IF r.items # <<>>
        THEN /\ tasks' = [tasks EXCEPT ![t] =
                    [loc EXCEPT !.pc = "restore_set", !.cur = Head(r.items),
                                !.todo = Tail(r.items), !.failed = r.failed]]
             /\ last' = Step(t, g, "restore", "await", loc.src, loc.stale, NoResult)
             /\ timers' = tm
             /\ hist' = h
             /\ UNCHANGED lockFile
        ELSE /\ lockFile' = save_lockdowns(ClearList(loc.snapshots, g))
             /\ tasks' = [tasks EXCEPT ![t] = IdleTask]
             /\ last' = Step(t, g, "restore", "return", loc.src, loc.stale,
                             Summary(loc.restored, r.failed))
             /\ timers' = Outlived(loc, tm)
             /\ hist' = Track(h, g, "restore_summary")

remove_lockdown(t, g, src, stale, tm) ==
    LET snapshots       == load_lockdowns
        guild_snapshots == snapshots[g]
        h               == Track(hist, g, "restore_begin")
    IN  IF guild_snapshots = <<>>
        THEN /\ last' = Step(t, g, "restore", "return", src, stale, NoSnapshot)
             /\ timers' = tm
             /\ hist' = Track(h, g, "restore_nothing")
             /\ UNCHANGED <<lockFile, tasks>>
        ELSE RestoreProceed(t,
                [IdleTask EXCEPT !.guild = g, !.src = src, !.stale = stale,
                                 !.snapshots = snapshots,
                                 !.todo = Items(guild_snapshots),
                                 !.seen = timers[g].fresh],
                tm, h)

\* the unlock command
RestoreBegin(t, g) ==
    /\ FreeSlot(t)
    /\ budget.commands < MaxCommands
    /\ Spend("commands")
    /\ remove_lockdown(t, g, "cmd", FALSE, timers)
    /\ UNCHANGED <<overwrites, present, ledgerVars>>

\* auto_unlock wakes from asyncio.sleep(duration)
TimerFire(t, g, stale) ==
    /\ FreeSlot(t)
    /\ IF stale THEN timers[g].stale > 0 ELSE timers[g].fresh > 0
    /\ remove_lockdown(t, g, "timer", stale,
          IF stale THEN [timers EXCEPT ![g].stale = @ - 1]
                   ELSE [timers EXCEPT ![g].fresh = @ - 1])
    /\ UNCHANGED <<overwrites, present, budget, ledgerVars>>

\* ch.set_permissions returned
RestoreSetOk(t) ==
    /\ tasks[t].pc = "restore_set"
    /\ overwrites' = [overwrites EXCEPT ![tasks[t].cur[1]] = Written(tasks[t].cur[2])]
    /\ RestoreProceed(t, [tasks[t] EXCEPT !.restored = @ + 1], timers, hist)
    /\ UNCHANGED <<present, budget, ledgerVars>>

\* ch.set_permissions raised: except: failed+=1
RestoreSetFail(t) ==
    /\ tasks[t].pc = "restore_set"
    /\ budget.fail < MaxFail
    /\ Spend("fail")
    /\ RestoreProceed(t, [tasks[t] EXCEPT !.failed = @ + 1], timers,
                      Track(hist, tasks[t].guild, "void"))
    /\ UNCHANGED <<overwrites, present, ledgerVars>>

(***************************************************************************)
(* What others do to the guilds meanwhile.                                 *)
(***************************************************************************)
ExternalChange(c, o) ==
    /\ budget.external < MaxExternal
    /\ Spend("external")
    /\ c \in present
    /\ overwrites[c] # o
    /\ overwrites' = [overwrites EXCEPT ![c] = o]
    /\ last' = Step(0, GuildOf(c), "external", "return", "cmd", FALSE, NoResult)
    /\ hist' = Track(hist, GuildOf(c), "external")
    /\ UNCHANGED <<lockFile, present, tasks, timers, ledgerVars>>

ChannelCreate(c) ==
    /\ budget.external < MaxExternal
    /\ Spend("external")
    /\ c \notin present
    /\ present' = present \cup {c}
    /\ last' = Step(0, GuildOf(c), "create", "return", "cmd", FALSE, NoResult)
    /\ hist' = Track(hist, GuildOf(c), "void")
    /\ UNCHANGED <<lockFile, overwrites, tasks, timers, ledgerVars>>

LockInit ==
    /\ lockFile \in {FileAbsent(EmptyLockdowns), FileOk(LeftoverLockdowns)}
    /\ overwrites = InitialOverwrites
    /\ present = AllChannels \ Creatable
    /\ tasks = [t \in Tasks |-> IdleTask]
    /\ timers = [g \in Guilds |-> [fresh |-> 0, stale |-> 0]]
    /\ last = Step(0, "g1", "none", "return", "cmd", FALSE, NoResult)
    /\ hist = [g \in Guilds |-> NoHistory]
    /\ budget = [commands |-> 0, fail |-> 0, external |-> 0]

LockNext ==
    \/ \E t \in Tasks, g \in Guilds : ApplyBegin(t, g)
    \/ \E t \in Tasks : ApplySetOk(t)
    \/ \E t \in Tasks : ApplySetFail(t)
    \/ \E t \in Tasks : ApplyNotifyOk(t)
    \/ \E t \in Tasks : ApplyNotifyFail(t)
    \/ \E t \in Tasks, g \in Guilds : RestoreBegin(t, g)
    \/ \E t \in Tasks, g \in Guilds, stale \in BOOLEAN : TimerFire(t, g, stale)
    \/ \E t \in Tasks : RestoreSetOk(t)
    \/ \E t \in Tasks : RestoreSetFail(t)
    \/ \E o \in ExternalOverwrites : ExternalChange("c1", o)
    \/ \E c \in Creatable : ChannelCreate(c)

vars == <<ledgerVars, lockVars>>

Init == LedgerInit /\ LockInit

Next == LedgerNext \/ CommandNext \/ DurationNext \/ LockNext

\* the ledger alone, the lockdown manager alone, and both
LedgerSpec == Init /\ [][LedgerNext]_vars

LockSpec == Init /\ [][LockNext]_vars

CommandSpec == Init /\ [][CommandNext]_vars

\* The event loop runs every coroutine that can run: a call that is awaited
\* comes back, and asyncio.sleep(duration) ends.
LockFairness ==
    /\ \A t \in Tasks :
          /\ WF_vars(ApplySetOk(t))
          /\ WF_vars(ApplyNotifyOk(t))
          /\ WF_vars(RestoreSetOk(t))
    /\ \A g \in Guilds : WF_vars(\E t \in Tasks, stale \in BOOLEAN : TimerFire(t, g, stale))

LockFairSpec == Init /\ [][LockNext]_vars /\ LockFairness

DurationSpec == Init /\ [][DurationNext]_vars

Spec == Init /\ [][Next]_vars


(***************************************************************************)
(* Lockdown manager: claims.                                               *)
(***************************************************************************)
\* every channel apply_lockdown goes through has the overwrite it had when
\* the first lockdown of the guild's history began
RoundTrip(g) ==
    \A c \in Range(GuildChannels(g)) :
        (c \in present /\ InScope(c)) => overwrites[c] = hist[g].pre[c]

\* C1: a lockdown followed at once by an unlock, with no call raising and
\* nobody else touching the guild, leaves every in-scope channel with the
\* overwrite it had before the lockdown.
C1_ApplyRestoreRoundTrip ==
    \A g \in Guilds :
        (hist[g].phase = "restored" /\ hist[g].applies = 1) => RoundTrip(g)

\* C2: k >= 1 lockdowns of a guild one after the other and then an unlock
\* leave every in-scope channel with the overwrite it had before the first
\* of them.
C2_AppliesThenRestore ==
    \A g \in Guilds :
        (hist[g].phase = "restored" /\ hist[g].applies >= 1) => RoundTrip(g)

AllLists == [g \in Guilds |-> StoredList(g)]

AllListsNext == [g \in Guilds |-> StoredListNext(g)]

\* C3: no step of an auto_unlock whose lockdown a manual unlock has already
\* undone changes a channel overwrite or a stored snapshot, whatever
\* lockdowns were issued since.
C3_LateTimerIsNoOp ==
    [][last'.stale => (overwrites' = overwrites /\ AllListsNext = AllLists)]_vars

\* the step is the first of a remove_lockdown
RestoreStart == last'.op = "restore" /\ tasks[last'.task].pc = "idle"

\* C4: of two unlocks of a guild in a row the second returns NoSnapshot at
\* once and writes no overwrite; an unlock returns NoSnapshot exactly when
\* it finds the guild's stored list empty, and a summary otherwise.
C4_SecondRestoreNoSnapshot ==
    [][/\ (RestoreStart /\ last.op = "restore" /\ last.ev = "return"
                        /\ last.guild = last'.guild) =>
              /\ last'.res = NoSnapshot
              /\ overwrites' = overwrites
              /\ tasks' = tasks
       /\ RestoreStart =>
              (last'.res = NoSnapshot <=> StoredList(last'.guild) = <<>>)
       /\ (last'.op = "restore" /\ last'.ev = "return"
              /\ ~(RestoreStart /\ StoredList(last'.guild) = <<>>)) =>
              last'.res.kind = "summary"
    ]_vars

\* an unlock that returned a summary, and then one that returned NoSnapshot
C4_Witness ==
    \E g \in Guilds :
        /\ hist[g].phase = "restored2"
        /\ hist[g].summary
        /\ last.guild = g
        /\ last.op = "restore"
        /\ last.res = NoSnapshot

\* an auto_unlock of the guild is sleeping or running
TimerAround(g) ==
    \/ timers[g].fresh + timers[g].stale > 0
    \/ last'.src = "timer"
    \/ \E t \in Tasks : tasks[t].pc # "idle" /\ tasks[t].guild = g /\ tasks[t].src = "timer"

\* C5: while lockdowns and auto_unlocks of a guild interleave, its stored
\* list changes only by a lockdown appending its snapshot to the list as it
\* is, or by an unlock that went through every snapshot of the list
\* emptying it: no snapshot is lost, none comes back.
C5_NoLostNoDuplicate ==
    [][\A g \in Guilds :
        (last'.guild = g /\ TimerAround(g) /\ StoredListNext(g) # StoredList(g)) =>
            \/ /\ last'.op = "apply"
               /\ Len(StoredListNext(g)) = Len(StoredList(g)) + 1
               /\ SubSeq(StoredListNext(g), 1, Len(StoredList(g))) = StoredList(g)
            \/ /\ last'.op = "restore"
               /\ StoredListNext(g) = <<>>
               /\ RestoreStart \/ tasks[last'.task].snapshots[g] = StoredList(g)
    ]_vars

\* C6: a step of a lockdown or unlock of one guild leaves the stored list of
\* every other guild as it is.
C6_GuildsIndependent ==
    [][\A g \in Guilds : StoredListNext(g) # StoredList(g) => last'.guild = g]_vars

Stored(b) == load_actions[b]

StoredNext(b) == LoadJson(actionsFile', EmptyLedger)[b]

\* C8: the n-th add_action on a bucket returns n and stores it as the id of
\* the bucket's n-th record, whatever amends and whatever calls on other
\* buckets come in between: ids in a bucket are 1, 2, 3, ... in call order.
C8_IdsCountUp ==
    \A b \in Buckets :
        /\ Len(Stored(b)) = Len(assigned[b])
        /\ \A n \in 1..Len(assigned[b]) :
              /\ assigned[b][n] = n
              /\ Stored(b)[n].id = n

\* two records in one bucket, one of them amended, and a record elsewhere
C8_Witness ==
    \E b \in Buckets, c \in Buckets :
        /\ b # c
        /\ Len(assigned[b]) >= 2
        /\ Len(assigned[c]) >= 1
        /\ \E n \in 1..Len(Stored(b)) : "edited_at" \in DOMAIN Stored(b)[n]

AmendStep == lastOp'.op = "amend"

SameBut(new, old, fields) ==
    /\ DOMAIN new = DOMAIN old \cup fields
    /\ \A f \in DOMAIN old \ fields : new[f] = old[f]

\* C9: edit_action_reason with no number on a non-empty bucket rewrites the
\* reason of the bucket's first record and sets its edited_at, returns the
\* reason it had, and changes nothing else: not its id, not another record,
\* not the length of any bucket.
C9_AmendFirst ==
    [][(AmendStep /\ lastOp'.number = 0 /\ Stored(lastOp'.bucket) # <<>>) =>
        LET b    == lastOp'.bucket
            old  == Stored(b)
            new  == StoredNext(b)
        IN  /\ ret' = old[1].reason
            /\ Len(new) = Len(old)
            /\ SameBut(new[1], old[1], {"reason", "edited_at"})
            /\ new[1].id = old[1].id
            /\ new[1].reason = OrDefault(lastOp'.reason)
            /\ new[1].edited_at \in Times
            /\ \A i \in 2..Len(old) : new[i] = old[i]
            /\ \A c \in Buckets \ {b} : StoredNext(c) = Stored(c)
    ]_vars

\* the first of two records was amended with no number, the second was not
C9_Witness ==
    /\ lastOp.op = "amend"
    /\ lastOp.number = 0
    /\ Len(Stored(lastOp.bucket)) >= 2
    /\ "edited_at" \in DOMAIN Stored(lastOp.bucket)[1]
    /\ "edited_at" \notin DOMAIN Stored(lastOp.bucket)[2]
    /\ ret # None

HasId(u, number) == \E i \in 1..Len(u) : u[i].id = number

\* C10: edit_action_reason with a number changes a record only when that
\* record's id is the number; when the bucket holds no record with that id
\* (empty or not) it returns None (ActionNotFound) and stores nothing.
C10_AmendByIdOrNotFound ==
    [][(AmendStep /\ lastOp'.number # 0) =>
        LET b   == lastOp'.bucket
            old == Stored(b)
            new == StoredNext(b)
        IN  /\ Len(new) = Len(old)
            /\ \A i \in 1..Len(old) :
                  new[i] # old[i] => old[i].id = lastOp'.number
            /\ ~HasId(old, lastOp'.number) =>
                  /\ ret' = None
                  /\ actionsFile' = actionsFile
    ]_vars


(***************************************************************************)
(* Lockdown manager: scope, failures, persistence.                         *)
(***************************************************************************)
Ids(channels) == [k \in 1..Len(channels) |-> channels[k][1]]

\* the channels a lockdown is to leave alone
OutOfScope == STAFF_CHANNEL_IDS \cup {GENERAL_CHANNEL_ID}

\* C11: the staff channels and the general channel keep the overwrite they
\* started with; no snapshot, stored or being built, has an entry for one of
\* them; a lockdown in its sweep has captured or still has ahead of it every
\* other channel of the guild, and the snapshot a lockdown has just stored
\* is the one it built, with an entry for every other channel of the guild.
\* (A lockdown gets as far as storing only in a guild with no such channel:
\* see C17.)
C11_ScopeOfSnapshots ==
    /\ \A c \in OutOfScope : overwrites[c] = InitialOverwrites[c]
    /\ \A g \in Guilds : \A i \in 1..Len(StoredList(g)) :
          Range(Ids(StoredList(g)[i].channels)) \cap OutOfScope = {}
    /\ \A t \in Tasks :
          /\ Range(Ids(tasks[t].snapshot.channels)) \cap OutOfScope = {}
          /\ tasks[t].pc = "apply_set" =>
                Ids(tasks[t].snapshot.channels) \o tasks[t].todo
                    = InScopeChannels(tasks[t].guild)
    /\ (last.op = "apply" /\ last.ev = "saved") =>
          LET lst == StoredList(last.guild)
          IN  /\ lst # <<>>
              /\ lst[Len(lst)] = tasks[last.task].snapshot
              /\ Ids(lst[Len(lst)].channels) = InScopeChannels(last.guild)

\* a lockdown went through c1 and c2 of g1, and a lockdown has just stored
\* its snapshot
C11_Witness ==
    /\ overwrites["c1"].send_messages = "False"
    /\ overwrites["c2"].send_messages = "False"
    /\ last.op = "apply"
    /\ last.ev = "saved"

\* the step is ch.set_permissions raising in the lockdown of task t
SetRaisedInApply(t) ==
    /\ tasks[t].pc = "apply_set"
    /\ last'.task = t
    /\ budget'.fail = budget.fail + 1

\* C12: when ch.set_permissions raises for a channel, the lockdown goes on:
\* it does not return an error, it turns to the next channel of its sweep
\* if there is one, and after the last channel it stores its snapshot.
C12_ApplyContinuesAfterFailure ==
    [][\A t \in Tasks : SetRaisedInApply(t) =>
          /\ last'.res # ApplyError
          /\ tasks[t].todo # <<>> =>
                /\ tasks'[t].pc = "apply_set"
                /\ tasks'[t].cur[1] = Head(tasks[t].todo)
          /\ tasks[t].todo = <<>> =>
                Len(StoredListNext(tasks[t].guild))
                    = Len(tasks[t].snapshots[tasks[t].guild]) + 1
    ]_vars

\* the step is a lockdown coming back from save_lockdowns raising: its
\* error return that no Permission Backend or notification call caused
SaveRaised ==
    /\ last'.op = "apply"
    /\ last'.ev = "return"
    /\ last'.res = ApplyError
    /\ budget'.fail = budget.fail

\* C13: a save that raises leaves the stored document as it was: loading
\* after it gives every guild the list that loading before it gave.
C13_FailedSaveKeepsDocument ==
    [][SaveRaised => AllListsNext = AllLists]_vars

(***************************************************************************)
(* Action ledger: commands in flight together.                             *)
(***************************************************************************)
\* the commands on bucket b that called add_action
Done(b) == {i \in 1..Len(cmds) : cmds[i].pc = "done" /\ cmds[i].bucket = b}

Ledger(b) == LoadJson(actionsFile, EmptyLedger)[b]

\* C14: however kick and ban commands overlap, the ledger holds one record
\* for each command that called add_action, under the id that call
\* returned, and two such commands on one bucket got different ids.
C14_NoLostRecord ==
    \A b \in Buckets :
        /\ Len(Ledger(b)) = Cardinality(Done(b))
        /\ \A i \in Done(b) :
              \E n \in 1..Len(Ledger(b)) :
                  /\ Ledger(b)[n].id = cmds[i].id
                  /\ Ledger(b)[n].reason = OrDefault(cmds[i].reason)
        /\ \A i, j \in Done(b) : i # j => cmds[i].id # cmds[j].id

\* two commands of one guild were suspended together, one of them issued
\* for the very bucket of the other, and both have called add_action
C14_Witness ==
    \E i, j \in 1..Len(cmds) :
        /\ i < j
        /\ cmds[i].pc = "done"
        /\ cmds[j].pc = "done"
        /\ cmds[i].bucket = cmds[j].bucket
        /\ cmds[j].seen = cmds[i].seen

(***************************************************************************)
(* Durations: claims.                                                      *)
(***************************************************************************)
\* C15: parse_duration gives back the number of seconds human_readable was
\* given, for every number of Seconds.
C15_ParseFormatRoundTrip ==
    dur.pc = "parsed" => dur.parsed = dur.seconds

\* a duration with a day, an hour, a minute and a second in it came back
C15_Witness ==
    /\ dur.pc = "parsed"
    /\ dur.text = <<"1", "d", "1", "h", "1", "m", "1", "s">>
    /\ dur.parsed = 90061

(***************************************************************************)
(* Lockdown manager: accumulated snapshots.                                *)
(***************************************************************************)
\* C16: a lockdown, a change of a channel's overwrite by somebody else, a
\* second lockdown and then an unlock leave every channel the lockdowns go
\* through with the overwrite the second lockdown found on it: the unlock
\* writes the snapshots back in stored order, the second one last.
C16_SecondSnapshotWins ==
    \A g \in Guilds :
        hist[g].phase = "restored_x" =>
            \A c \in Range(GuildChannels(g)) :
                (c \in present /\ InScope(c)) => overwrites[c] = hist[g].mid[c]

\* the step is the return of a lockdown
ApplyReturn == last'.op = "apply" /\ last'.ev = "return"

\* the step is a lockdown reading a channel's overwrite into its snapshot,
\* on its way to writing to the channel
ApplyRead == last'.op = "apply" /\ last'.ev = "await"

\* the snapshot entries of the returning lockdown for the channels it wrote
\* to: those it counted as affected, and the one whose write this step
\* completes
Modified ==
    LET loc == tasks[last'.task]
    IN  {loc.snapshot.channels[k] : k \in {k \in 1..Len(loc.snapshot.channels) :
            \/ loc.snapshot.channels[k][1] \in Range(loc.affected)
            \/ overwrites' # overwrites /\ k = Len(loc.snapshot.channels)}}

\* C17: the entry a lockdown makes for a channel is the overwrite it found
\* there; and when a lockdown that wrote to a channel returns, with
\* whatever outcome, the guild's stored list has a snapshot with its entries
\* for all the channels it wrote to.
C17_LockedMeansStored ==
    [][/\ ApplyRead =>
              LET cur == tasks'[last'.task].cur
              IN  cur[2] = overwrites'[cur[1]]
       /\ (ApplyReturn /\ Modified # {}) =>
              \E i \in 1..Len(StoredListNext(last'.guild)) :
                  Modified \subseteq Range(StoredListNext(last'.guild)[i].channels)
    ]_vars

\* A step of the unlock of task t that found snapshots: the entries it had
\* ahead of it before the step, those it has ahead of it after (the one it
\* awaits first), those the step went past, and the count of restored and
\* failed before and after.
RestoreStep(t) ==
    last'.op = "restore" /\ last'.task = t /\ last'.res # NoSnapshot

Ahead(t) ==
    IF tasks[t].pc = "idle" THEN Items(StoredList(last'.guild)) ELSE tasks[t].todo

AheadNext(t) ==
    IF tasks'[t].pc = "restore_set" THEN <<tasks'[t].cur>> \o tasks'[t].todo ELSE <<>>

Passed(t) == SubSeq(Ahead(t), 1, Len(Ahead(t)) - Len(AheadNext(t)))

Counted(t) ==
    IF tasks[t].pc = "idle" THEN 0 ELSE tasks[t].restored + tasks[t].failed

CountedNext(t) ==
    IF tasks'[t].pc = "restore_set"
    THEN tasks'[t].restored + tasks'[t].failed
    ELSE last'.res.restored + last'.res.failed

\* C18: an unlock that found snapshots goes through every entry of every
\* snapshot in order; whether a write-back raised or not it turns to the
\* next entry; every entry whose channel exists is counted as restored or
\* as failed; and when it returns it has emptied the guild's stored list.
C18_RestoreGoesThroughAll ==
    [][\A t \in Tasks : RestoreStep(t) =>
          /\ Len(AheadNext(t)) <= Len(Ahead(t))
          /\ AheadNext(t) = SubSeq(Ahead(t), Len(Passed(t)) + 1, Len(Ahead(t)))
          /\ CountedNext(t) - Counted(t)
                = (IF tasks[t].pc = "restore_set" THEN 1 ELSE 0)
                  + Cardinality({k \in 1..Len(Passed(t)) : Passed(t)[k][1] \in present})
          /\ tasks'[t].pc = "restore_set" => tasks'[t].cur[1] \in present
          /\ tasks'[t].pc # "restore_set" =>
                /\ last'.res.kind = "summary"
                /\ StoredListNext(last'.guild) = <<>>
    ]_vars

\* an unlock whose first write-back raised went on to the second entry and
\* emptied the list
C18_Witness ==
    /\ last.op = "restore"
    /\ last.res.kind = "summary"
    /\ last.res.failed = 2
    /\ budget.fail = 1
    /\ StoredList(last.guild) = <<>>

(***************************************************************************)
(* Lockdown manager: timers and the Locked state.                          *)
(***************************************************************************)
\* an auto_unlock of the guild is sleeping
TimerPending(g) == timers[g].fresh + timers[g].stale > 0

\* an auto_unlock of the guild has run remove_lockdown to its end
TimerDone(g) ==
    /\ last.op = "restore"
    /\ last.src = "timer"
    /\ last.guild = g
    /\ last.ev = "return"
    /\ StoredList(g) = <<>>

\* no auto_unlock of the guild is sleeping or running
NoTimer(g) ==
    /\ ~TimerPending(g)
    /\ \A t \in Tasks :
          ~(tasks[t].pc # "idle" /\ tasks[t].guild = g /\ tasks[t].src = "timer")

\* the returning lockdown scheduled an auto_unlock: in this step, or before
\* it went on to its notifications
Scheduled ==
    \/ timers'[last'.guild].fresh = timers[last'.guild].fresh + 1
    \/ tasks[last'.task].pc = "apply_notify"

\* a lockdown with a duration that returns has scheduled its auto_unlock
TimerScheduled ==
    [][(ApplyReturn /\ tasks[last'.task].duration # 0) => Scheduled]_vars

\* an auto_unlock that sleeps wakes, runs remove_lockdown to its end and
\* leaves the guild with no stored snapshot
TimerFires ==
    \A g \in Guilds : TimerPending(g) ~> TimerDone(g)

\* no step of a lockdown without a duration schedules an auto_unlock
NoTimerWithoutDuration ==
    [][\A t \in Tasks :
          (last'.op = "apply" /\ last'.task = t
             /\ (IF tasks[t].pc = "idle" THEN tasks'[t].duration ELSE tasks[t].duration) = 0)
          => timers' = timers]_vars

\* with no auto_unlock about, only the unlock command empties a guild's list
LockedUntilManual ==
    [][\A g \in Guilds :
          (NoTimer(g) /\ StoredList(g) # <<>> /\ StoredListNext(g) = <<>>) =>
              (last'.op = "restore" /\ last'.src = "cmd" /\ last'.guild = g)]_vars

\* C19: a lockdown with a duration that returns has scheduled an
\* auto_unlock, which eventually runs and leaves the guild Unlocked, its
\* stored list empty; a lockdown without a duration schedules none, and a
\* guild with no auto_unlock about stays Locked until the unlock command.
C19_TimedUnlock ==
    /\ TimerScheduled
    /\ TimerFires
    /\ NoTimerWithoutDuration
    /\ LockedUntilManual

\* the step adds one snapshot at the end of the guild's stored list
AppendedOne(g) ==
    /\ Len(StoredListNext(g)) = Len(StoredList(g)) + 1
    /\ SubSeq(StoredListNext(g), 1, Len(StoredList(g))) = StoredList(g)

\* C20: a lockdown is carried out whether the guild has stored snapshots or
\* not; every lockdown that returns, no call of its having raised, has added
\* exactly one snapshot at the end of the guild's stored list, the earlier
\* ones kept as they were; and
\* a stored list that was not empty becomes empty only by an unlock of that
\* guild.
C20_ApplyAppendsOne ==
    [][/\ (ApplyReturn /\ budget'.fail = budget.fail) =>
              \/ tasks[last'.task].pc = "apply_notify"
              \/ AppendedOne(last'.guild)
       /\ (last'.op = "apply" /\ last'.ev = "saved") => AppendedOne(last'.guild)
       /\ \A g \in Guilds :
              (StoredList(g) # <<>> /\ StoredListNext(g) = <<>>) =>
                  (last'.op = "restore" /\ last'.guild = g)
    ]_vars

(***************************************************************************)
(* Lockdown manager: what a lockdown writes to a channel.                  *)
(***************************************************************************)
\* the step is set_permissions of the lockdown run by task t returning: the
\* overwrite the lockdown passed is now the channel's
ApplyWrite(t) ==
    /\ tasks[t].pc = "apply_set"
    /\ last'.op = "apply" /\ last'.task = t
    /\ budget' = budget

\* two overwrites agree in every permission but send-messages and
\* add-reactions
SameElsewhere(o, p) ==
    [o EXCEPT !.send_messages = "None", !.add_reactions = "None"] =
    [p EXCEPT !.send_messages = "None", !.add_reactions = "None"]

\* send-messages and add-reactions are both denied
Denies(o) == o.send_messages = "False" /\ o.add_reactions = "False"

\* C21: the overwrite a lockdown prepares for a channel is the one it has
\* just read there with send-messages and add-reactions denied and every
\* other permission as read; the channel is in scope; and the write puts
\* exactly that overwrite on that channel and touches no other channel.
C21_WriteKeepsOtherFields ==
    [][/\ ApplyRead =>
              LET cur == tasks'[last'.task].cur
              IN  /\ InScope(cur[1])
                  /\ Denies(cur[2])
                  /\ SameElsewhere(cur[2], overwrites'[cur[1]])
       /\ \A t \in Tasks :
              ApplyWrite(t) =>
                  overwrites' = [overwrites EXCEPT ![tasks[t].cur[1]] = tasks[t].cur[2]]
    ]_vars

\* a lockdown read c1 after somebody had made it visible, and has written
\* to it: view-channel is still allowed, the other two are denied
C21_Witness ==
    /\ last.op = "apply"
    /\ last.task \in Tasks
    /\ tasks[last.task].affected = <<"c1">>
    /\ overwrites["c1"] = Overwrite("False", "False", "True")

====
